---- MODULE Spec2Model ----
(***************************************************************************)
(* Model of the two serial decoders of Flow_Rate_and_Temp:                 *)
(*   src/read_and_store.py       FlowmeterDataCollector (text lines)       *)
(*   src/read_and_store_temp.py  temperature poll loop  (8-byte frames)    *)
(* Three specifications share the variables; each one leaves the other     *)
(* programs' variables at their initial values:                            *)
(*   SpecFlow  the flow collector's run loop                               *)
(*   SpecTemp  the temperature poll loop of main()                         *)
(*   SpecFind  find_frame applied to bounded buffers                       *)
(***************************************************************************)
EXTENDS Integers, Sequences, FiniteSets

VARIABLES
    \* ---- flow collector (read_and_store.py)
    pc,              \* position of run(): "read", "process", "finally", "stopped", "crashed"
    exc,             \* exception raised in run(): "none", "KeyboardInterrupt", "ValueError", "SerialException"
    ring_buffer,     \* self.ring_buffer, a deque(maxlen=buffer_size) of lines
    current_record,  \* self.current_record
    nread,           \* loop iterations that polled the serial port so far (bounded)
    parsed,          \* history: the lines handed to parse_data_line, in order
    appended,        \* history: the lines appended to ring_buffer, in order
    cuts,            \* history: the steps cut short by Ctrl+C, with the line they held
    attempts,        \* history: the store attempts (calls of supabase insert)
    emptyAt,         \* history: the k such that the accumulator was empty after k parsed lines
    \* ---- temperature poll loop (read_and_store_temp.py main)
    tpc,             \* "poll", "stopped" (break at line 156), "serial_error" (line 159)
    buffer,          \* the bytearray buffer
    consecutive_errors,
    npolls,          \* polls that returned data so far (bounded)
    emptyPolls,      \* history: polls that returned no data so far
    emptyRun,        \* history: polls in a row, up to now, that returned no data
    stream,          \* history: every byte received so far, in order
    cycle,           \* history: what the last poll cycle did
    selected,        \* history: stream positions of the windows selected for upload
    \* ---- find_frame applied to an input
    ff_buf,          \* the argument
    ff_res,          \* the result (frame, consumed)
    ff_done

flowVars == <<pc, exc, ring_buffer, current_record, nread, parsed, appended, cuts, attempts, emptyAt>>
tempVars == <<tpc, buffer, consecutive_errors, npolls, emptyPolls, emptyRun, stream, cycle, selected>>
findVars == <<ff_buf, ff_res, ff_done>>
vars == <<flowVars, tempVars, findVars>>

\* Python's None; every value of the model that may be None is a tuple.
None == <<>>

(***************************************************************************)
(* Bounds                                                                  *)
(***************************************************************************)
MaxLines == 4
MaxPolls == 2
MaxFindLen == 9

RECURSIVE SeqsUpTo(_, _)
\* All sequences over S of length 0..n.
SeqsUpTo(S, n) ==
    IF n = 0 THEN {<<>>}
    ELSE LET shorter == SeqsUpTo(S, n - 1)
         IN  shorter \cup {Append(s, x) : s \in {t \in shorter : Len(t) = n - 1}, x \in S}

(***************************************************************************)
(* read_and_store.py: lines and their parsing                              *)
(***************************************************************************)
\* A serial line after decode('ascii'), as the three regular expressions see
\* it: the leading word, the run of [\d.] characters, the unit, and, for a
\* line shaped \d{2}-\d{2}-\d{2} \d{2}:\d{2}:\d{2}, its six two-digit numbers.
\*   head "ts"    : num = <<>>, dt = <<yy, mm, dd, HH, MM, SS>>
\*   head "Flow"  : "Flow <num> <unit>"
\*   head "Vel:"  : "Vel: <num> <unit>"
\*   head "junk"  : any other non-blank text
\*   head "blank" : whitespace only (line.strip() is empty)
Line(head, num, unit, dt) == [head |-> head, num |-> num, unit |-> unit, dt |-> dt]

DigitChars == <<"0", "1", "2", "3", "4", "5", "6", "7", "8", "9">>
IsDigit(c) == \E i \in 1..Len(DigitChars) : DigitChars[i] = c
DigitVal(c) == (CHOOSE i \in 1..Len(DigitChars) : DigitChars[i] = c) - 1

RECURSIVE CountDots(_)
CountDots(s) == IF s = <<>> THEN 0
                ELSE (IF Head(s) = "." THEN 1 ELSE 0) + CountDots(Tail(s))

(***************************************************************************)
(* float(s), lines 69 and 75: the decimal numeral s converted to the       *)
(* nearest IEEE 754 binary64, ties to even. Natural numbers of any size    *)
(* are sequences of binary digits, least significant first, without        *)
(* leading zeros (0 is <<>>).                                              *)
(***************************************************************************)
RECURSIVE BigTrim(_)
BigTrim(a) == IF a # <<>> /\ a[Len(a)] = 0 THEN BigTrim(SubSeq(a, 1, Len(a) - 1)) ELSE a

RECURSIVE BigAddC(_, _, _)
\* a + b + c for a carry c in {0, 1}.
BigAddC(a, b, c) ==
    IF a = <<>> /\ b = <<>> THEN (IF c = 1 THEN <<1>> ELSE <<>>)
    ELSE LET x == IF a = <<>> THEN 0 ELSE Head(a)
             y == IF b = <<>> THEN 0 ELSE Head(b)
             s == x + y + c
         IN  <<s % 2>> \o BigAddC(IF a = <<>> THEN a ELSE Tail(a),
                                  IF b = <<>> THEN b ELSE Tail(b), s \div 2)
BigAdd(a, b) == BigAddC(a, b, 0)

RECURSIVE BigSubB(_, _, _)
\* The digits of a - b - w for a borrow w in {0, 1} and a >= b + w.
BigSubB(a, b, w) ==
    IF a = <<>> THEN <<>>
    ELSE LET y == IF b = <<>> THEN 0 ELSE Head(b)
             d == Head(a) - y - w
         IN  <<(d + 2) % 2>> \o BigSubB(Tail(a), IF b = <<>> THEN b ELSE Tail(b),
                                        IF d < 0 THEN 1 ELSE 0)
BigSub(a, b) == BigTrim(BigSubB(a, b, 0))

RECURSIVE BigLess(_, _)
BigLess(a, b) ==
    IF Len(a) # Len(b) THEN Len(a) < Len(b)
    ELSE IF a = <<>> THEN FALSE
    ELSE IF a[Len(a)] # b[Len(b)] THEN a[Len(a)] < b[Len(b)]
    ELSE BigLess(BigTrim(SubSeq(a, 1, Len(a) - 1)), BigTrim(SubSeq(b, 1, Len(b) - 1)))

\* a * 2^k
BigShl(a, k) == IF a = <<>> THEN <<>> ELSE [i \in 1..k |-> 0] \o a
BigMul10(a) == BigAdd(BigShl(a, 1), BigShl(a, 3))

RECURSIVE BigOfInt(_)
BigOfInt(n) == IF n = 0 THEN <<>> ELSE <<n % 2>> \o BigOfInt(n \div 2)

RECURSIVE BigPow10(_)
BigPow10(e) == IF e = 0 THEN <<1>> ELSE BigMul10(BigPow10(e - 1))

RECURSIVE BigDivRem(_, _)
\* <<a div b, a mod b>> for b # 0, by binary long division.
BigDivRem(a, b) ==
    IF a = <<>> THEN <<<<>>, <<>>>>
    ELSE LET hi == BigDivRem(Tail(a), b)
             r2 == BigTrim(<<Head(a)>> \o hi[2])
         IN  IF BigLess(r2, b) THEN <<BigTrim(<<0>> \o hi[1]), r2>>
             ELSE <<<<1>> \o hi[1], BigSub(r2, b)>>

RECURSIVE DigitsValue(_)
\* The integer written by the digits of s, its dot skipped.
DigitsValue(s) ==
    IF s = <<>> THEN <<>>
    ELSE LET c == s[Len(s)]
             rest == SubSeq(s, 1, Len(s) - 1)
         IN  IF c = "." THEN DigitsValue(rest)
             ELSE BigAdd(BigMul10(DigitsValue(rest)), BigOfInt(DigitVal(c)))

RECURSIVE FracDigits(_)
\* The number of digits after the dot of s (0 without a dot).
FracDigits(s) ==
    IF s = <<>> \/ CountDots(s) = 0 THEN 0
    ELSE IF s[Len(s)] = "." THEN 0
    ELSE 1 + FracDigits(SubSeq(s, 1, Len(s) - 1))

\* binary64: 53 significant binary digits, the smallest positive value is
\* 2^-1074, and 2^1024 and above is out of range.
MantBits == 53
MinExp == -1074
MaxExp == 1024

RECURSIVE FracBits(_, _, _, _, _)
\* The binary digits of r / d (r < d) after the point, most significant
\* first: at most `budget` of them, and no more than `left` counted from the
\* first significant digit (`started`: a significant digit came earlier).
\* The expansion stops when it is exact; `sticky` tells that it was cut.
FracBits(r, d, budget, started, left) ==
    IF r = <<>> THEN [bits |-> <<>>, sticky |-> 0]
    ELSE IF budget = 0 \/ (started /\ left <= 0) THEN [bits |-> <<>>, sticky |-> 1]
    ELSE LET r2 == BigShl(r, 1)
             bit == IF BigLess(r2, d) THEN 0 ELSE 1
             nxt == FracBits(IF bit = 1 THEN BigSub(r2, d) ELSE r2, d, budget - 1,
                             started \/ bit = 1,
                             IF started \/ bit = 1 THEN left - 1 ELSE left)
         IN  [bits |-> <<bit>> \o nxt.bits, sticky |-> nxt.sticky]

Reverse(s) == [i \in 1..Len(s) |-> s[Len(s) + 1 - i]]
Max(a, b) == IF a >= b THEN a ELSE b

RECURSIVE Canonical(_, _)
\* m * 2^e with m odd, or zero.
Canonical(m, e) == IF m = <<>> THEN <<<<>>, 0>>
                   ELSE IF Head(m) = 0 THEN Canonical(Tail(m), e + 1)
                   ELSE <<m, e>>

\* A float is <<m, e>>, the value m * 2^e with m odd; 0.0 and inf are:
FloatZero == <<<<>>, 0>>
FloatInf == <<<<1>>, MaxExp>>

\* A value of 2^1024 or more is inf.
Finite(x) == IF Len(x[1]) + x[2] > MaxExp THEN FloatInf ELSE x

\* q * 2^e without its `drop` last binary digits, rounded to nearest, ties
\* to even (`sticky`: digits other than 0 follow the digits of q).
RoundBits(q, e, sticky, drop) ==
    LET guard == IF drop >= 1 /\ drop <= Len(q) THEN q[drop] ELSE 0
        rest == \E i \in 1..(drop - 1) : i <= Len(q) /\ q[i] = 1
        kept == IF drop >= Len(q) THEN <<>> ELSE SubSeq(q, drop + 1, Len(q))
        up == guard = 1 /\ (sticky = 1 \/ rest \/ (kept # <<>> /\ Head(kept) = 1))
    IN  Finite(Canonical(IF up THEN BigAdd(kept, <<1>>) ELSE kept, e + drop))

\* The digits to drop from q * 2^e: those beyond 53 significant digits and
\* those below 2^-1074.
RoundDrop(q, e, sticky) == RoundBits(q, e, sticky, Max(0, Max(Len(q) - MantBits, MinExp - e)))

\* The integer part and the expansion of the fraction, as one binary numeral.
RoundExpansion(int, fr) == RoundDrop(BigTrim(Reverse(fr.bits) \o int), 0 - Len(fr.bits), fr.sticky)

\* qr = <<n div d, n mod d>>: the fraction is expanded down to 2^-1075 and to
\* 54 significant digits (one more than kept, for the rounding).
RoundQuot(qr, d) ==
    RoundExpansion(qr[1], FracBits(qr[2], d, 1 - MinExp, qr[1] # <<>>, MantBits + 1 - Len(qr[1])))

\* The nearest binary64 of n / 10^f, ties to even.
RoundToFloat(n, f) == RoundQuot(BigDivRem(n, BigPow10(f)), BigPow10(f))

\* float(s) for s matching [\d.]+ : ValueError unless s has at most one dot
\* and at least one digit.
FloatOk(s) == CountDots(s) <= 1 /\ \E i \in 1..Len(s) : IsDigit(s[i])
FloatOf(s) == RoundToFloat(DigitsValue(s), FracDigits(s))

\* datetime.strptime(..., '%y-%m-%d %H:%M:%S')
YearOf(yy) == IF yy <= 68 THEN 2000 + yy ELSE 1900 + yy
IsLeap(y) == y % 4 = 0 /\ (y % 100 # 0 \/ y % 400 = 0)
DaysIn(y, m) == IF m = 2 THEN (IF IsLeap(y) THEN 29 ELSE 28)
                ELSE IF m \in {4, 6, 9, 11} THEN 30 ELSE 31
StrptimeOk(dt) ==
    /\ dt[2] \in 1..12
    /\ dt[3] >= 1 /\ dt[3] <= DaysIn(YearOf(dt[1]), dt[2])
    /\ dt[4] <= 23 /\ dt[5] <= 59 /\ dt[6] <= 59
\* bangkok_tz.localize(naive_dt).isoformat(): the fields and the UTC offset
\* in minutes (Asia/Bangkok is +07:00 for every year %y can give).
BangkokOffset == 420
LocalizedIso(dt) == <<YearOf(dt[1]), dt[2], dt[3], dt[4], dt[5], dt[6], BangkokOffset>>

\* The three re.match tests of parse_data_line.
timestamp_match(line) == line.head = "ts"
flow_match(line) == line.head = "Flow" /\ line.num # <<>> /\ line.unit = "l/s"
vel_match(line) == line.head = "Vel:" /\ line.num # <<>> /\ line.unit = "m/s"

EmptyRecord == [timestamp |-> None, flow |-> None, velocity |-> None]

\* Mutant: a timestamp line starts a fresh record (flow and velocity cleared).
parse_data_line_ts_clears(rec, line) ==
    IF timestamp_match(line) THEN
        IF StrptimeOk(line.dt)
        THEN [rec |-> [EmptyRecord EXCEPT !.timestamp = LocalizedIso(line.dt)], ret |-> FALSE, raised |-> FALSE]
        ELSE [rec |-> rec, ret |-> FALSE, raised |-> TRUE]
    ELSE IF flow_match(line) THEN
        IF FloatOk(line.num)
        THEN [rec |-> [rec EXCEPT !.flow = FloatOf(line.num)], ret |-> FALSE, raised |-> FALSE]
        ELSE [rec |-> rec, ret |-> FALSE, raised |-> TRUE]
    ELSE IF vel_match(line) THEN
        IF FloatOk(line.num)
        THEN [rec |-> [rec EXCEPT !.velocity = FloatOf(line.num)], ret |-> TRUE, raised |-> FALSE]
        ELSE [rec |-> rec, ret |-> FALSE, raised |-> TRUE]
    ELSE [rec |-> rec, ret |-> FALSE, raised |-> FALSE]

\* parse_data_line(line) on accumulator rec: the accumulator afterwards, the
\* returned flag, and whether ValueError was raised (then rec is unchanged).
parse_data_line(rec, line) ==
    IF timestamp_match(line) THEN
        IF StrptimeOk(line.dt)
        THEN [rec |-> [rec EXCEPT !.timestamp = LocalizedIso(line.dt)], ret |-> FALSE, raised |-> FALSE]
        ELSE [rec |-> rec, ret |-> FALSE, raised |-> TRUE]
    ELSE IF flow_match(line) THEN
        IF FloatOk(line.num)
        THEN [rec |-> [rec EXCEPT !.flow = FloatOf(line.num)], ret |-> FALSE, raised |-> FALSE]
        ELSE [rec |-> rec, ret |-> FALSE, raised |-> TRUE]
    ELSE IF vel_match(line) THEN
        IF FloatOk(line.num)
        THEN [rec |-> [rec EXCEPT !.velocity = FloatOf(line.num)], ret |-> TRUE, raised |-> FALSE]
        ELSE [rec |-> rec, ret |-> FALSE, raised |-> TRUE]
    ELSE [rec |-> rec, ret |-> FALSE, raised |-> FALSE]

\* Python truthiness of an accumulator field: None and 0.0 are false, a
\* non-empty string (the ISO timestamp) and a non-zero float are true.
Truthy(v) == v # None /\ v # FloatZero
\* Mutant: the completeness test looks at the velocity alone.
AllValues_velocity_only(rec) == Truthy(rec.velocity)
\* all(self.current_record.values())
AllValues(rec) == Truthy(rec.timestamp) /\ Truthy(rec.flow) /\ Truthy(rec.velocity)

\* The records store_record can get back from the sink: response.data is
\* non-empty, response.data is empty, or insert(...).execute() raises.
SinkOutcomes == {"data", "empty", "exception"}
\* datetime.now(timezone.utc).isoformat(): the fields and the UTC offset 0.
WallClock == {<<2026, 10, 29, 12, 0, 0, 0>>}

\* store_record(), lines 93-94: the accumulator's timestamp is overwritten.
stamp(rec, utc_now) == [rec EXCEPT !.timestamp = utc_now]

\* Mutant: the device timestamp of the accumulator is what is stored.
store_record_device_time(rec, utc_now, outcome) ==
    [timestamp |-> rec.timestamp, flow |-> rec.flow, velocity |-> rec.velocity, outcome |-> outcome]

\* store_record(): overwrite the timestamp with utc_now and offer the record
\* to the sink; every outcome is handled inside (try/except Exception). The
\* value is the store attempt as the sink sees it.
store_record(rec, utc_now, outcome) ==
    [timestamp |-> utc_now, flow |-> rec.flow, velocity |-> rec.velocity, outcome |-> outcome]

\* Mutant: the accumulator is reset only when the sink took the record.
reset_on_success(rec, outcome) == IF outcome = "data" THEN EmptyRecord ELSE rec
\* process_buffer, line 87: after store_record returns, whatever the sink
\* did, the accumulator is replaced by an empty one.
reset_record(rec, outcome) == EmptyRecord

\* Mutant: a line is dropped by the append (a deque of maxlen 0).
deque_append_drop(dq, line) == dq
\* deque(maxlen=buffer_size).append(line)
buffer_size == 1000
deque_append(dq, line) ==
    IF buffer_size = 0 THEN dq
    ELSE IF Len(dq) >= buffer_size THEN Append(Tail(dq), line)
    ELSE Append(dq, line)

(***************************************************************************)
(* read_and_store.py: inputs                                               *)
(***************************************************************************)
TsLines == {Line("ts", <<>>, "", dt) : dt \in {<<24, 2, 29, 23, 59, 59>>, <<25, 2, 29, 0, 0, 0>>}}
FlowNums == {<<"0">>, <<"1", ".", "5">>, <<"1", ".", "2", ".", "3">>}
VelNums == {<<"0", ".", "0">>, <<"2", ".", "5">>, <<".">>}
FlowLines == {Line("Flow", n, "l/s", <<>>) : n \in FlowNums}
VelLines == {Line("Vel:", n, "m/s", <<>>) : n \in VelNums}
OtherLines == {Line("junk", <<>>, "", <<>>), Line("Flow", <<"1", ".", "5">>, "m/s", <<>>)}
BlankLine == Line("blank", <<>>, "", <<>>)
InputLines == TsLines \cup FlowLines \cup VelLines \cup OtherLines \cup {BlankLine}

\* line.strip() is non-empty
NonBlank(line) == line.head # "blank"

(***************************************************************************)
(* read_and_store.py: run()                                                *)
(***************************************************************************)
\* A step cut by Ctrl+C: the line it held, the index this line has (or would
\* have had) among the parsed lines, and the point of the cut:
\*   "read"      readline() had returned the line, line 124 had not appended it
\*   "popped"    after popleft (83), before parse_data_line assigned
\*   "parsed"    after parse_data_line assigned (63, 69, 75), before store_record
\*   "stamped"   in store_record after line 94, before the insert is sent
\*   "inserting" inside insert(...).execute() (95-99), the request sent or not
\*   "inserted"  after the sink answered or raised (100-108), before line 87
Cut(at, line, point) == [at |-> at, line |-> line, point |-> point]

\* run(), lines 120-124: in_waiting > 0 and readline() returns `line`.
ReadLine ==
    /\ UNCHANGED <<tempVars, findVars>>
    /\ pc = "read"
    /\ nread < MaxLines
    /\ \E line \in InputLines :
          /\ ring_buffer' = IF NonBlank(line) THEN deque_append(ring_buffer, line) ELSE ring_buffer
          /\ appended' = IF NonBlank(line) THEN Append(appended, line) ELSE appended
    /\ nread' = nread + 1
    /\ pc' = "process"
    /\ UNCHANGED <<exc, current_record, parsed, cuts, attempts, emptyAt>>

\* run(), lines 120 and 125-126: in_waiting is 0, or readline() raises inside
\* the try of line 121 and the error is printed; nothing is appended.
ReadNothing ==
    /\ UNCHANGED <<tempVars, findVars>>
    /\ pc = "read"
    /\ pc' = "process"
    /\ UNCHANGED <<exc, ring_buffer, current_record, nread, parsed, appended, cuts, attempts, emptyAt>>

\* run(), line 120: reading self.ser.in_waiting raises (the port is gone).
\* The test stands outside the try of line 121 and line 131 catches only
\* KeyboardInterrupt: the finally block runs and the exception leaves run().
InWaitingRaises ==
    /\ UNCHANGED <<tempVars, findVars>>
    /\ pc = "read"
    /\ pc' = "finally"
    /\ exc' = "SerialException"
    /\ UNCHANGED <<ring_buffer, current_record, nread, parsed, appended, cuts, attempts, emptyAt>>

\* Ctrl+C after readline() has returned a non-blank line and before line 124
\* appends it: KeyboardInterrupt is no Exception (line 125), the line is gone
\* and the finally block runs.
ReadLineInterrupted ==
    /\ UNCHANGED <<tempVars, findVars>>
    /\ pc = "read"
    /\ nread < MaxLines
    /\ \E line \in InputLines :
          /\ NonBlank(line)
          /\ cuts' = Append(cuts, Cut(Len(parsed) + 1, line, "read"))
    /\ nread' = nread + 1
    /\ pc' = "finally"
    /\ exc' = "KeyboardInterrupt"
    /\ UNCHANGED <<ring_buffer, current_record, parsed, appended, attempts, emptyAt>>

\* One turn of process_buffer's while loop (lines 82-87): pop a line, parse
\* it, and store and reset when the record is complete. A ValueError of the
\* parse leaves the loop of run() for its finally block; inside the finally
\* block it ends the process.
ProcessLine ==
    /\ UNCHANGED <<tempVars, findVars>>
    /\ pc \in {"process", "finally"}
    /\ ring_buffer # <<>>
    /\ LET line == Head(ring_buffer)
           r == parse_data_line(current_record, line)
           k == Len(parsed) + 1
       IN  /\ ring_buffer' = Tail(ring_buffer)
           /\ parsed' = Append(parsed, line)
           /\ IF r.raised THEN
                 /\ pc' = IF pc = "process" THEN "finally" ELSE "crashed"
                 /\ exc' = "ValueError"
                 /\ UNCHANGED <<current_record, attempts, emptyAt>>
              ELSE IF r.ret /\ AllValues(r.rec) THEN
                 /\ \E now \in WallClock, outcome \in SinkOutcomes :
                       /\ attempts' = Append(attempts, [at |-> k, rec |-> store_record(r.rec, now, outcome)])
                       /\ current_record' = reset_record(stamp(r.rec, now), outcome)
                 /\ emptyAt' = IF current_record' = EmptyRecord THEN emptyAt \cup {k} ELSE emptyAt
                 /\ UNCHANGED <<pc, exc>>
              ELSE
                 /\ current_record' = r.rec
                 /\ emptyAt' = IF r.rec = EmptyRecord THEN emptyAt \cup {k} ELSE emptyAt
                 /\ UNCHANGED <<pc, exc, attempts>>
    /\ UNCHANGED <<nread, appended, cuts>>

\* A turn of process_buffer's loop cut by Ctrl+C. KeyboardInterrupt is caught
\* neither by store_record (except Exception, line 107) nor by
\* process_buffer: from run()'s loop it reaches line 131 and the finally
\* block runs, from the finally block it leaves run(). A line cut at
\* "popped" is gone unparsed; an attempt cut at "inserting" has the outcome
\* "interrupt"; in no case is the accumulator reset.
ProcessLineInterrupted ==
    /\ UNCHANGED <<tempVars, findVars>>
    /\ pc \in {"process", "finally"}
    /\ ring_buffer # <<>>
    /\ LET line == Head(ring_buffer)
           r == parse_data_line(current_record, line)
           k == Len(parsed) + 1
       IN  /\ ring_buffer' = Tail(ring_buffer)
           /\ \/ /\ cuts' = Append(cuts, Cut(k, line, "popped"))
                 /\ UNCHANGED <<parsed, current_record, attempts, emptyAt>>
              \/ /\ ~r.raised
                 /\ cuts' = Append(cuts, Cut(k, line, "parsed"))
                 /\ parsed' = Append(parsed, line)
                 /\ current_record' = r.rec
                 /\ emptyAt' = IF r.rec = EmptyRecord THEN emptyAt \cup {k} ELSE emptyAt
                 /\ UNCHANGED attempts
              \/ /\ ~r.raised /\ r.ret /\ AllValues(r.rec)
                 /\ parsed' = Append(parsed, line)
                 /\ \E now \in WallClock :
                       /\ current_record' = stamp(r.rec, now)
                       /\ \/ /\ cuts' = Append(cuts, Cut(k, line, "stamped"))
                             /\ attempts' = attempts
                          \/ /\ cuts' = Append(cuts, Cut(k, line, "inserting"))
                             /\ attempts' = Append(attempts, [at |-> k, rec |-> store_record(r.rec, now, "interrupt")])
                          \/ /\ cuts' = Append(cuts, Cut(k, line, "inserted"))
                             /\ \E outcome \in SinkOutcomes :
                                   attempts' = Append(attempts, [at |-> k, rec |-> store_record(r.rec, now, outcome)])
                 /\ UNCHANGED emptyAt
    /\ pc' = IF pc = "process" THEN "finally" ELSE "crashed"
    /\ exc' = "KeyboardInterrupt"
    /\ UNCHANGED <<nread, appended>>

\* process_buffer's loop ends on the empty deque: back to the top of run()'s
\* loop after the sleep, or, in the finally block, the end of run().
ProcessDone ==
    /\ UNCHANGED <<tempVars, findVars>>
    /\ pc \in {"process", "finally"}
    /\ ring_buffer = <<>>
    /\ pc' = IF pc = "process" THEN "read"
             ELSE IF exc \in {"ValueError", "SerialException"} THEN "crashed" ELSE "stopped"
    /\ UNCHANGED <<exc, ring_buffer, current_record, nread, parsed, appended, cuts, attempts, emptyAt>>

\* Ctrl+C between two steps: inside run()'s loop (lines 119-129) it is caught
\* at line 131 and the finally block runs; inside the finally block (lines
\* 134-137) KeyboardInterrupt leaves run() and what is left of the block,
\* the queued lines and ser.close(), is skipped.
Interrupt ==
    /\ UNCHANGED <<tempVars, findVars>>
    /\ pc \in {"read", "process", "finally"}
    /\ pc' = IF pc = "finally" THEN "crashed" ELSE "finally"
    /\ exc' = "KeyboardInterrupt"
    /\ UNCHANGED <<ring_buffer, current_record, nread, parsed, appended, cuts, attempts, emptyAt>>

FlowNext ==
    \/ ReadLine \/ ReadNothing \/ InWaitingRaises \/ ReadLineInterrupted
    \/ ProcessLine \/ ProcessLineInterrupted \/ ProcessDone
    \/ Interrupt

(***************************************************************************)
(* read_and_store_temp.py: frames                                          *)
(***************************************************************************)
StartMarker == 2
EndMarker == 3
FrameLen == 8

\* buffer[i:i+8] for 0 <= i <= len(buffer) - 8 (Python indexes from 0).
Window(buf, i) == SubSeq(buf, i + 1, i + FrameLen)

\* Mutant: the two bytes are combined low byte first.
Tenths_little_endian(hi, lo) == lo * 256 + hi
\* (hi << 8 | lo) / 10.0, kept exactly as the number of tenths.
Tenths(hi, lo) == hi * 256 + lo
decode_t1(candidate) == Tenths(candidate[3], candidate[4])
decode_t2(candidate) == Tenths(candidate[5], candidate[6])

RECURSIVE find_from(_, _)
\* The for loop of find_frame from index i on (lines 54-64).
find_from(buf, i) ==
    IF i >= Len(buf) - 7 THEN <<None, 0>>
    ELSE IF buf[i + 1] = StartMarker /\ buf[i + 8] = EndMarker
         THEN <<Window(buf, i), i + 8>>
         ELSE find_from(buf, i + 1)

RECURSIVE find_from_skip(_, _)
\* Mutant: a candidate without end marker is skipped whole (i += 8).
find_from_skip(buf, i) ==
    IF i >= Len(buf) - 7 THEN <<None, 0>>
    ELSE IF buf[i + 1] = StartMarker
         THEN IF buf[i + 8] = EndMarker THEN <<Window(buf, i), i + 8>>
              ELSE find_from_skip(buf, i + 8)
         ELSE find_from_skip(buf, i + 1)
find_frame_skip(buf) == find_from_skip(buf, 0)
\* find_frame(buffer): (candidate, i+8) or (None, 0).
find_frame(buf) == find_from(buf, 0)

RECURSIVE scan_from(_, _, _, _)
\* The selection loop of main() from index i on (lines 116-125), `found`
\* windows counted so far at the indices `counted`: the count reached, the
\* index selected (-1 when none) and t1_to_upload, t2_to_upload.
scan_from(buf, i, found, counted) ==
    IF i >= Len(buf) - 7
    THEN [found |-> found, counted |-> counted, sel |-> -1, t1 |-> None, t2 |-> None]
    ELSE IF buf[i + 1] = StartMarker
         THEN IF found + 1 = 2
              THEN [found |-> found + 1, counted |-> Append(counted, i), sel |-> i,
                    t1 |-> <<decode_t1(Window(buf, i))>>, t2 |-> <<decode_t2(Window(buf, i))>>]
              ELSE scan_from(buf, i + 1, found + 1, Append(counted, i))
         ELSE scan_from(buf, i + 1, found, counted)

select_for_upload(buf) == scan_from(buf, 0, 0, <<>>)

\* 10 <= t <= 100 on a value kept in tenths (line 127).
TempLow == 10
TempHigh == 100
\* Mutant: the lower bound of the range test is missing.
in_range_no_low(t) == t <= TempHigh * 10
in_range(t) == TempLow * 10 <= t /\ t <= TempHigh * 10

\* data_to_upload without its timestamp: the t1 and t2 handed to the sink.
data_to_upload(t1, t2) == <<t1, t2>>

\* ser.read(32) and the retention of lines 147-148.
ReadSize == 32
RetainSize == 32
\* Mutant: the trim keeps the oldest bytes, buffer[:32].
trim_keep_first(buf) == IF Len(buf) > RetainSize THEN SubSeq(buf, 1, RetainSize) ELSE buf
\* if len(buffer) > 32: buffer = buffer[-32:]
trim(buf) == IF Len(buf) > RetainSize THEN SubSeq(buf, Len(buf) - RetainSize + 1, Len(buf)) ELSE buf

\* if consecutive_errors >= 5: break
MaxErrors == 5

(***************************************************************************)
(* read_and_store_temp.py: inputs                                          *)
(***************************************************************************)
\* Frames by their t1 and t2 byte pairs, their second byte and their last byte.
Frame(b1, hl1, hl2, last) == <<StartMarker, b1, hl1[1], hl1[2], hl2[1], hl2[2], 0, last>>
F_ok == Frame(1, <<1, 100>>, <<1, 100>>, EndMarker)       \* 35.6, 35.6
F_edge == Frame(1, <<0, 100>>, <<3, 232>>, EndMarker)     \* 10.0, 100.0
F_low == Frame(1, <<0, 99>>, <<1, 100>>, EndMarker)       \* 9.9, 35.6
F_high == Frame(1, <<1, 100>>, <<3, 233>>, EndMarker)     \* 35.6, 100.1
F_two == Frame(StartMarker, <<1, 244>>, <<1, 244>>, EndMarker)  \* 50.0, 50.0, a 0x02 in the payload
F_noend == Frame(1, <<1, 100>>, <<1, 100>>, 0)            \* no end marker
Noise == <<255>>
SingleChunks == {F_ok, F_edge, F_low, F_high, F_two, F_noend, Noise}
PairChunks == {a \o b : a \in {F_two, F_noend}, b \in {F_ok, F_noend}}
Burst == F_ok \o F_edge \o Noise \o F_high \o <<StartMarker, 1, 1, 100, 1, 100, 0>>
DataChunks == {c \in SingleChunks \cup PairChunks \cup {Burst} : Len(c) >= 1 /\ Len(c) <= ReadSize}

(***************************************************************************)
(* read_and_store_temp.py: main()                                          *)
(***************************************************************************)
NoCycle == [kind |-> "none", chunk |-> <<>>, scanned |-> <<>>, found |-> 0, counted |-> <<>>,
            sel |-> -1, t1 |-> None, t2 |-> None, sent |-> None, outcome |-> "none"]

\* Mutant: the break test is consecutive_errors > 5.
after_cycle_late(errors) == IF errors > MaxErrors THEN "stopped" ELSE "poll"
\* if consecutive_errors >= 5: break, else sleep and poll again (lines 152-158)
after_cycle(errors) == IF errors >= MaxErrors THEN "stopped" ELSE "poll"

\* One poll cycle whose ser.read(32) returns the non-empty `chunk`
\* (lines 99-148, 152-158).
PollData ==
    /\ UNCHANGED <<flowVars, findVars>>
    /\ tpc = "poll"
    /\ npolls < MaxPolls
    /\ \E chunk \in DataChunks :
          LET full == buffer \o chunk
              s == select_for_upload(full)
              upload == s.t1 # None /\ s.t2 # None /\ in_range(s.t1[1]) /\ in_range(s.t2[1])
              done == [kind |-> "data", chunk |-> chunk, scanned |-> full, found |-> s.found,
                       counted |-> s.counted, sel |-> s.sel, t1 |-> s.t1, t2 |-> s.t2,
                       sent |-> IF upload THEN data_to_upload(s.t1[1], s.t2[1]) ELSE None,
                       outcome |-> "none"]
          IN  /\ buffer' = trim(full)
              /\ stream' = stream \o chunk
              /\ \E outcome \in (IF upload THEN SinkOutcomes ELSE {"none"}) :
                    cycle' = [done EXCEPT !.outcome = outcome]
              /\ selected' = IF upload
                             THEN Append(selected, Len(stream) + Len(chunk) - Len(full) + s.sel)
                             ELSE selected
    /\ npolls' = npolls + 1
    /\ tpc' = after_cycle(consecutive_errors)
    /\ emptyRun' = 0
    /\ UNCHANGED <<consecutive_errors, emptyPolls>>

\* One poll cycle whose ser.read(32) returns b'' (lines 99-103, 149-158).
PollEmpty ==
    /\ UNCHANGED <<flowVars, findVars>>
    /\ tpc = "poll"
    /\ consecutive_errors' = consecutive_errors + 1
    /\ emptyPolls' = emptyPolls + 1
    /\ emptyRun' = emptyRun + 1
    /\ cycle' = [NoCycle EXCEPT !.kind = "empty"]
    /\ tpc' = after_cycle(consecutive_errors')
    /\ UNCHANGED <<buffer, npolls, stream, selected>>

\* ser.write or ser.read raises serial.SerialException (lines 159-160).
SerialFail ==
    /\ UNCHANGED <<flowVars, findVars>>
    /\ tpc = "poll"
    /\ tpc' = "serial_error"
    /\ UNCHANGED <<buffer, consecutive_errors, npolls, emptyPolls, emptyRun, stream, cycle, selected>>

TempNext == PollData \/ PollEmpty \/ SerialFail

(***************************************************************************)
(* find_frame on bounded inputs                                            *)
(***************************************************************************)
FindBytes == {0, StartMarker, EndMarker}
ApplyFindFrame ==
    /\ UNCHANGED <<flowVars, tempVars>>
    /\ ~ff_done
    /\ ff_res' = find_frame(ff_buf)
    /\ ff_done' = TRUE
    /\ UNCHANGED ff_buf

FindNext == ApplyFindFrame

(***************************************************************************)
(* Specifications                                                          *)
(***************************************************************************)
\* After construction: the collector connected with an empty deque and an
\* empty accumulator, the poll loop about to send its first command with an
\* empty bytearray, and find_frame not yet applied.
Init ==
    /\ pc = "read"
    /\ exc = "none"
    /\ ring_buffer = <<>>
    /\ current_record = EmptyRecord
    /\ nread = 0
    /\ parsed = <<>>
    /\ appended = <<>>
    /\ cuts = <<>>
    /\ attempts = <<>>
    /\ emptyAt = {0}
    /\ tpc = "poll"
    /\ buffer = <<>>
    /\ consecutive_errors = 0
    /\ npolls = 0
    /\ emptyPolls = 0
    /\ emptyRun = 0
    /\ stream = <<>>
    /\ cycle = NoCycle
    /\ selected = <<>>
    /\ ff_buf = <<>>
    /\ ff_res = <<None, 0>>
    /\ ff_done = FALSE

\* The same, with find_frame's argument drawn from the bounded buffers.
InitFind ==
    /\ pc = "read"
    /\ exc = "none"
    /\ ring_buffer = <<>>
    /\ current_record = EmptyRecord
    /\ nread = 0
    /\ parsed = <<>>
    /\ appended = <<>>
    /\ cuts = <<>>
    /\ attempts = <<>>
    /\ emptyAt = {0}
    /\ tpc = "poll"
    /\ buffer = <<>>
    /\ consecutive_errors = 0
    /\ npolls = 0
    /\ emptyPolls = 0
    /\ emptyRun = 0
    /\ stream = <<>>
    /\ cycle = NoCycle
    /\ selected = <<>>
    /\ ff_buf \in SeqsUpTo(FindBytes, MaxFindLen)
    /\ ff_res = <<None, 0>>
    /\ ff_done = FALSE

SpecFlow == Init /\ [][FlowNext]_vars
SpecTemp == Init /\ [][TempNext]_vars
SpecFind == InitFind /\ [][FindNext]_vars


(***************************************************************************)
(* Properties of the flow collector (SpecFlow)                             *)
(***************************************************************************)
Kind(line) == IF timestamp_match(line) THEN "T"
              ELSE IF flow_match(line) THEN "F"
              ELSE IF vel_match(line) THEN "V" ELSE "other"
\* A line whose value parses.
WellFormed(line) == CASE Kind(line) = "T" -> StrptimeOk(line.dt)
                      [] Kind(line) \in {"F", "V"} -> FloatOk(line.num)
                      [] OTHER -> TRUE
\* A line with the shape of one of the three patterns whose value does not parse.
Malformed(line) == Kind(line) # "other" /\ ~WellFormed(line)
\* The store attempts made while parsing lines lo..hi.
AttemptsIn(lo, hi) == {i \in 1..Len(attempts) : attempts[i].at >= lo /\ attempts[i].at <= hi}
\* The kinds of the n lines parsed after the first k.
KindsAfter(k, n) == [j \in 1..n |-> Kind(parsed[k + j])]
\* The turn that parsed line n was cut by Ctrl+C.
CutTurn(n) == \E i \in 1..Len(cuts) : cuts[i].at = n /\ cuts[i].point \notin {"read", "popped"}
\* The lines of the steps cut at `point`, in order.
RECURSIVE LinesCutIn(_, _)
LinesCutIn(cs, point) ==
    IF cs = <<>> THEN <<>>
    ELSE (IF Head(cs).point = point THEN <<Head(cs).line>> ELSE <<>>) \o LinesCutIn(Tail(cs), point)
LinesCut(point) == LinesCutIn(cuts, point)
OneOfEach(kinds) == \A i, j \in 1..Len(kinds) : kinds[i] # "other" /\ (i # j => kinds[i] # kinds[j])

\* C1: from an empty accumulator, a well-formed timestamp line, flow line and
\* velocity line consumed in that order, whatever their values, make exactly
\* one store attempt with all three fields populated and leave the
\* accumulator empty. (Shutdown signals are outside the specification: the
\* three lines are consumed by turns that Ctrl+C did not cut.)
C1_TsFlowVelStoresOnce ==
    \A k \in emptyAt :
        (/\ k + 3 <= Len(parsed)
         /\ KindsAfter(k, 3) = <<"T", "F", "V">>
         /\ \A j \in 1..3 : WellFormed(parsed[k + j]) /\ ~CutTurn(k + j))
        => /\ Cardinality(AttemptsIn(k + 1, k + 3)) = 1
           /\ \A i \in AttemptsIn(k + 1, k + 3) :
                 /\ attempts[i].rec.timestamp # None
                 /\ attempts[i].rec.flow # None
                 /\ attempts[i].rec.velocity # None
           /\ k + 3 \in emptyAt

\* C2 as stated: from an empty accumulator, one line of each kind in any
\* order other than timestamp, flow, velocity, or lines of only two of the
\* three kinds, make no store attempt.
C2_OtherOrderNeverStores ==
    \A k \in emptyAt : \A n \in {2, 3} :
        (/\ k + n <= Len(parsed)
         /\ OneOfEach(KindsAfter(k, n))
         /\ (n = 2 \/ KindsAfter(k, n) # <<"T", "F", "V">>))
        => AttemptsIn(k + 1, k + n) = {}

\* C2 amended: from an empty accumulator, one line of each kind in any order
\* in which the velocity line is not the last, or lines of only two of the
\* three kinds, make no store attempt.
C2_VelocityNotLastNeverStores ==
    \A k \in emptyAt : \A n \in {2, 3} :
        (/\ k + n <= Len(parsed)
         /\ OneOfEach(KindsAfter(k, n))
         /\ (n = 2 \/ KindsAfter(k, n)[3] # "V"))
        => AttemptsIn(k + 1, k + n) = {}

\* A velocity, a timestamp and a flow line, all with values that count, were
\* consumed from the empty accumulator: it is complete and nothing was stored.
C2_Witness ==
    /\ Len(parsed) = 3
    /\ KindsAfter(0, 3) = <<"V", "T", "F">>
    /\ AllValues(current_record)
    /\ attempts = <<>>
    /\ pc = "read"

\* C3: a line shaped like a timestamp, flow or velocity line whose value does
\* not parse never ends the collector: no ValueError leaves process_buffer
\* uncaught, and the run loop goes on.
C3_MalformedLineNeverCrashes ==
    (\E i \in 1..Len(parsed) : Malformed(parsed[i])) => (exc # "ValueError" /\ pc # "crashed")

\* Line k is the latest point before line n at which the accumulator was empty.
LastEmptyBefore(n) == CHOOSE k \in emptyAt : k < n /\ \A j \in emptyAt : j < n => j <= k

\* C11: every store attempt, whether the sink accepted the record, answered
\* with no data or raised, leaves the accumulator empty at once, without
\* ending the loop; and no accumulated record is offered twice. (Shutdown
\* signals are outside the specification: the reset and the going on are
\* those of a turn that Ctrl+C did not cut; a sink outcome other than the
\* three comes only with such a cut.)
C11_ResetAfterEveryAttempt ==
    [][Len(attempts') > Len(attempts) =>
          /\ Len(attempts') = Len(attempts) + 1
          /\ \A i \in 1..Len(attempts) : attempts[i].at < attempts'[Len(attempts')].at
          /\ cuts' = cuts =>
                /\ attempts'[Len(attempts')].rec.outcome \in SinkOutcomes
                /\ current_record' = EmptyRecord
                /\ pc' = pc /\ exc' = exc]_vars

\* The sink raised on a store attempt and a later line was still consumed.
C11_Witness ==
    /\ Len(attempts) >= 1
    /\ attempts[1].rec.outcome = "exception"
    /\ Len(parsed) > attempts[1].at
    /\ current_record # EmptyRecord
    /\ cuts = <<>>

\* C12: every record handed to the sink has its timestamp, flow and velocity
\* populated, and is handed over by the step that consumes a velocity line.
C12_OnlyCompleteRecordsStored ==
    \A i \in 1..Len(attempts) :
        /\ attempts[i].rec.timestamp # None
        /\ attempts[i].rec.flow # None
        /\ attempts[i].rec.velocity # None
        /\ Kind(parsed[attempts[i].at]) = "V"

\* A velocity line was consumed first, on an incomplete accumulator, without
\* a store attempt; the record was stored later, once complete.
C12_Witness ==
    /\ Len(attempts) = 1
    /\ Kind(parsed[1]) = "V" /\ WellFormed(parsed[1])
    /\ attempts[1].at > 1

\* C13: whenever a velocity line is consumed and a timestamp, a flow value and
\* the velocity have all been parsed since the last reset, a record is
\* emitted, whatever the values of flow and velocity (0.0 included).
\* (Shutdown signals are outside the specification: the velocity line is
\* consumed by a turn that Ctrl+C did not cut.)
C13_NoValueFilter ==
    \A n \in 1..Len(parsed) :
        (/\ Kind(parsed[n]) = "V" /\ WellFormed(parsed[n]) /\ ~CutTurn(n)
         /\ \E i \in (LastEmptyBefore(n) + 1)..(n - 1) : Kind(parsed[i]) = "T" /\ WellFormed(parsed[i])
         /\ \E i \in (LastEmptyBefore(n) + 1)..(n - 1) : Kind(parsed[i]) = "F" /\ WellFormed(parsed[i]))
        => \E a \in 1..Len(attempts) : attempts[a].at = n

\* C15: a consumed line changes at most the accumulator field of the pattern
\* it matches; timestamp and flow lines store nothing; a line matching no
\* pattern changes nothing and stores nothing. (A velocity line changes only
\* the velocity unless it completes the record, which then goes to
\* store_record.)
C15_LineChangesOnlyItsField ==
    [][Len(parsed') > Len(parsed) =>
          LET line == parsed'[Len(parsed')]
          IN  /\ Kind(line) = "T" =>
                    /\ current_record'.flow = current_record.flow
                    /\ current_record'.velocity = current_record.velocity
                    /\ attempts' = attempts
              /\ Kind(line) = "F" =>
                    /\ current_record'.timestamp = current_record.timestamp
                    /\ current_record'.velocity = current_record.velocity
                    /\ attempts' = attempts
              /\ Kind(line) = "V" =>
                    \/ /\ current_record'.timestamp = current_record.timestamp
                       /\ current_record'.flow = current_record.flow
                       /\ attempts' = attempts
                    \/ AllValues([current_record EXCEPT !.velocity = FloatOf(line.num)])
              /\ Kind(line) = "other" =>
                    /\ current_record' = current_record
                    /\ attempts' = attempts]_vars

\* A flow line, a timestamp line and a line matching no pattern were consumed:
\* the flow value is still there beside the timestamp, nothing was stored.
C15_Witness ==
    /\ Len(parsed) = 3
    /\ KindsAfter(0, 3) = <<"F", "T", "other">>
    /\ current_record.flow # None
    /\ current_record.timestamp # None
    /\ current_record.velocity = None
    /\ attempts = <<>>

\* C16: the timestamp of every record handed to the sink is the UTC wall-clock
\* time read at the store attempt, never the device timestamp parsed from a
\* timestamp line.
C16_StoredTimestampIsWallClock ==
    \A i \in 1..Len(attempts) :
        /\ attempts[i].rec.timestamp \in WallClock
        /\ \A j \in 1..Len(parsed) :
              (Kind(parsed[j]) = "T" /\ WellFormed(parsed[j]))
              => attempts[i].rec.timestamp # LocalizedIso(parsed[j].dt)

\* A record was stored after a device timestamp had been parsed.
C16_Witness ==
    /\ Len(attempts) >= 1
    /\ \E j \in 1..(attempts[1].at - 1) : Kind(parsed[j]) = "T" /\ WellFormed(parsed[j])

\* C19: no non-blank line is lost before it is parsed: the deque is empty
\* whenever a line is appended, holds at most one line, and the lines parsed
\* and still queued are the lines appended, in arrival order. (Shutdown
\* signals are outside the specification: the one line that can be missing
\* between the parsed and the queued lines is the line held by a turn that
\* Ctrl+C cut after popleft, and no line is missing before Ctrl+C.)
C19_NoLineLost ==
    /\ pc = "read" => ring_buffer = <<>>
    /\ Len(ring_buffer) <= 1
    /\ Len(ring_buffer) < buffer_size
    /\ parsed \o LinesCut("popped") \o ring_buffer = appended
    /\ exc # "KeyboardInterrupt" => cuts = <<>>

\* Several lines were appended, one is queued and the others were parsed.
C19_Witness ==
    /\ Len(appended) >= 3
    /\ Len(ring_buffer) = 1
    /\ Len(parsed) = Len(appended) - 1
    /\ cuts = <<>>

(***************************************************************************)
(* Properties of the temperature poll loop (SpecTemp)                      *)
(***************************************************************************)
\* A valid frame starts at index i of buf (both markers match).
ValidAt(buf, i) == i >= 0 /\ i + FrameLen <= Len(buf) /\ buf[i + 1] = StartMarker /\ buf[i + FrameLen] = EndMarker
ValidStarts(buf) == {i \in 0..(Len(buf) - FrameLen) : ValidAt(buf, i)}
Min(a, b) == IF a <= b THEN a ELSE b

\* C4: a window that starts with 0x02 and does not end with 0x03 is never
\* counted as a frame by the poll loop, and so never decoded for upload.
C4_NoEndMarkerNeverCounted ==
    cycle.kind = "data" =>
        \A j \in 1..Len(cycle.counted) : ValidAt(cycle.scanned, cycle.counted[j])

\* C5: when the scanned buffer is two valid frames back to back, whatever
\* their payload, the values selected for upload are those of the second.
C5_SecondFrameSelected ==
    (/\ cycle.kind = "data"
     /\ Len(cycle.scanned) = 2 * FrameLen
     /\ ValidAt(cycle.scanned, 0)
     /\ ValidAt(cycle.scanned, FrameLen))
    => /\ cycle.t1 = <<decode_t1(Window(cycle.scanned, FrameLen))>>
       /\ cycle.t2 = <<decode_t2(Window(cycle.scanned, FrameLen))>>

\* C6: a poll cycle whose scanned buffer holds fewer than two valid frames
\* uploads nothing.
C6_FewerThanTwoFramesNoUpload ==
    cycle.sent # None => Cardinality(ValidStarts(cycle.scanned)) >= 2

\* C7: what is handed to the sink is the selected pair, whole, and both of
\* its values lie in [10, 100], bounds included; a selected pair with a value
\* outside is not handed over, in part or whole.
C7_UploadOnlyInRange ==
    /\ cycle.sent # None =>
          /\ cycle.t1 # None /\ cycle.t2 # None
          /\ cycle.sent = <<cycle.t1[1], cycle.t2[1]>>
          /\ TempLow * 10 <= cycle.sent[1] /\ cycle.sent[1] <= TempHigh * 10
          /\ TempLow * 10 <= cycle.sent[2] /\ cycle.sent[2] <= TempHigh * 10
    /\ cycle.sent = None => cycle.outcome = "none"

\* The pair 10.0, 100.0 on the bounds was handed to the sink.
C7_Witness == cycle.sent = <<TempLow * 10, TempHigh * 10>>

\* C8: at the end of every poll cycle the buffer has at most 32 bytes and is
\* the most recent min(32, received) bytes of the received stream.
C8_BufferIsLast32 ==
    LET n == Min(RetainSize, Len(stream))
    IN  /\ Len(buffer) <= RetainSize
        /\ buffer = SubSeq(stream, Len(stream) - n + 1, Len(stream))

\* More than 32 bytes were received, by chunks of different sizes, and the
\* buffer was trimmed.
C8_Witness ==
    /\ Len(stream) > RetainSize
    /\ Len(buffer) = RetainSize
    /\ cycle.kind = "data"
    /\ Len(cycle.chunk) < FrameLen

\* C10 as stated: the poll loop never stops because of empty polls.
C10_EmptyPollsNeverStop == tpc # "stopped"

\* C10 amended: a poll that returns no bytes leaves the buffer unchanged, and
\* the loop goes on to the next poll unless that poll brings the count of
\* empty polls to 5, when the loop stops.
C10_EmptyPollKeepsBufferStopsAtFive ==
    [][emptyPolls' # emptyPolls =>
          /\ buffer' = buffer
          /\ stream' = stream
          /\ (tpc' = "poll" <=> emptyPolls' < MaxErrors)
          /\ (tpc' = "stopped" <=> emptyPolls' >= MaxErrors)]_vars

\* Four empty polls have happened, the last one just now, bytes are retained
\* and the loop is about to poll again.
C10_Witness ==
    /\ emptyPolls = MaxErrors - 1
    /\ cycle.kind = "empty"
    /\ buffer # <<>>
    /\ tpc = "poll"

\* The bytes of the window selected in the last cycle.
SelectedWindow == Window(cycle.scanned, cycle.sel)

\* C14 as stated: t1 is the big-endian value of bytes 2-3 of the frame over
\* 10, t2 that of bytes 4-5, and the byte pair 0x01, 0x64 decodes to 36.4.
C14_DecodesTo36_4 ==
    cycle.sel # -1 =>
        /\ cycle.t1 = <<SelectedWindow[3] * 256 + SelectedWindow[4]>>
        /\ cycle.t2 = <<SelectedWindow[5] * 256 + SelectedWindow[6]>>
        /\ (SelectedWindow[3] = 1 /\ SelectedWindow[4] = 100) => cycle.t1 = <<364>>
        /\ (SelectedWindow[5] = 1 /\ SelectedWindow[6] = 100) => cycle.t2 = <<364>>

\* C14 amended: t1 is the big-endian value of bytes 2-3 of the frame over 10,
\* t2 that of bytes 4-5, and the byte pair 0x01, 0x64 decodes to 35.6.
C14_DecodesTo35_6 ==
    cycle.sel # -1 =>
        /\ cycle.t1 = <<SelectedWindow[3] * 256 + SelectedWindow[4]>>
        /\ cycle.t2 = <<SelectedWindow[5] * 256 + SelectedWindow[6]>>
        /\ (SelectedWindow[3] = 1 /\ SelectedWindow[4] = 100) => cycle.t1 = <<356>>
        /\ (SelectedWindow[5] = 1 /\ SelectedWindow[6] = 100) => cycle.t2 = <<356>>

\* A window holding 01 64 in bytes 2-3 and in bytes 4-5 was selected.
C14_Witness ==
    /\ cycle.sel # -1
    /\ SubSeq(SelectedWindow, 3, 6) = <<1, 100, 1, 100>>
    /\ cycle.sent = <<356, 356>>

\* C17: the loop stops on too many errors only when the last five polls in a
\* row returned no data; a poll that returns data starts the count again.
C17_StopsOnlyAfterFiveInARow == tpc = "stopped" => emptyRun >= MaxErrors

\* C18: no received frame (the 8 bytes of a valid frame at one position of the
\* received stream) is uploaded in more than one poll cycle.
C18_FrameUploadedAtMostOnce ==
    \A i, j \in 1..Len(selected) :
        (i # j /\ ValidAt(stream, selected[i])) => selected[i] # selected[j]

(***************************************************************************)
(* Properties of find_frame (SpecFind)                                     *)
(***************************************************************************)
\* C9: find_frame returns the valid frame of lowest start index i with i+8,
\* whatever precedes it, and (None, 0) when no position holds a valid frame.
C9_FindFrameLowestValid ==
    ff_done =>
        IF ValidStarts(ff_buf) = {} THEN ff_res = <<None, 0>>
        ELSE LET m == CHOOSE i \in ValidStarts(ff_buf) : \A j \in ValidStarts(ff_buf) : i <= j
             IN  ff_res = <<SubSeq(ff_buf, m + 1, m + FrameLen), m + FrameLen>>

\* find_frame returned a frame that starts after an earlier 0x02 whose window
\* has no end marker and overlaps the frame.
C9_Witness ==
    /\ ff_done
    /\ ff_res[1] # None
    /\ \E j \in 0..(ff_res[2] - FrameLen - 1) : ff_buf[j + 1] = StartMarker

====
